---- MODULE Spec2Model ----
(***************************************************************************)
(* Model of src/javascript-web/src/App.tsx: the React component App that   *)
(* bootstraps the Ditto SDK, sets up one Ditto instance per mount,         *)
(* registers a sync subscription and a store observer driven by the search *)
(* box, and issues the four task mutations.                                *)
(*                                                                         *)
(* Strings are sequences of characters, so that trim(), the template        *)
(* literal `%${...}%` and ILIKE are computed, not assumed.  A character is  *)
(* a one-character string, or its code point written "U+XXXX" where TLA+    *)
(* has no literal for it.                                                   *)
(* Component state is indexed by mount: mount m is the m-th time the       *)
(* component is mounted.  Every mount creates at most one Ditto instance   *)
(* and one subscription, so both are indexed by the mount that made them.  *)
(***************************************************************************)
EXTENDS Naturals, Sequences, FiniteSets

\* ---------------------------------------------------------------- bounds
\* How many times the component is mounted.
MaxMounts == 2
\* How many times the user changes the search box.
MaxSearchChanges == 2
\* How many records createTask may insert.
MaxTasks == 2
\* How many undelivered callbacks one observer may have queued.
MaxPending == 2
\* How many mutations (create, edit, toggle, delete) the user issues.
MaxMutations == 5
\* How many execute calls may wait for their promise at the same time.
MaxInFlight == 2
\* How many search changes and mutations the user makes in all, where the
\* mutations come with every other operation of the component.
MaxEvents == 4

Mounts == 1..MaxMounts

\* ---------------------------------------------------------------- strings
BuyMilk == <<"B", "u", "y", " ", "m", "i", "l", "k">>
BuyEggs == <<"B", "u", "y", " ", "e", "g", "g", "s">>

\* What the user may type in the search box (App.tsx:246).
SearchTerms ==
    { <<>>,
      <<" ", " ">>,
      <<"e", "g", "g", "s">>,
      <<"\f", "M", "I", "L", "K", "U+00A0">> }

\* A search term that is a word of a title, in another case and with padding.
TitleSearchTerms ==
    { <<"\f", "M", "I", "L", "K", "U+00A0">> }

\* What the user may type as a task title.
Titles == { BuyMilk, BuyEggs }

\* The characters String.prototype.trim() removes: the ECMAScript WhiteSpace
\* (tab, vertical tab, form feed, space, no-break space, byte order mark and
\* the Unicode space separators) and LineTerminator (LF, CR, U+2028, U+2029)
\* characters.
WhiteSpace ==
    { "\t", "\n", "U+000B", "\f", "\r", " ", "U+00A0", "U+1680",
      "U+2000", "U+2001", "U+2002", "U+2003", "U+2004", "U+2005", "U+2006",
      "U+2007", "U+2008", "U+2009", "U+200A", "U+2028", "U+2029", "U+202F",
      "U+205F", "U+3000", "U+FEFF" }

UpperCase == <<"A","B","C","D","E","F","G","H","I","J","K","L","M",
               "N","O","P","Q","R","S","T","U","V","W","X","Y","Z">>
LowerCase == <<"a","b","c","d","e","f","g","h","i","j","k","l","m",
               "n","o","p","q","r","s","t","u","v","w","x","y","z">>

\* Case folding of one character, as ILIKE compares.
Lower(c) ==
    IF \E i \in 1..Len(UpperCase) : UpperCase[i] = c
    THEN LowerCase[CHOOSE i \in 1..Len(UpperCase) : UpperCase[i] = c]
    ELSE c

RECURSIVE TrimStart(_)
TrimStart(s) ==
    IF s # <<>> /\ Head(s) \in WhiteSpace THEN TrimStart(Tail(s)) ELSE s

RECURSIVE TrimEnd(_)
TrimEnd(s) ==
    IF s # <<>> /\ s[Len(s)] \in WhiteSpace
    THEN TrimEnd(SubSeq(s, 1, Len(s) - 1))
    ELSE s

\* A trim that forgets the trailing white space.
TrimLeadingOnly(s) == TrimStart(s)

\* searchQuery.trim()
Trim(s) == TrimEnd(TrimStart(s))

\* ---------------------------------------------------------------- query
BaseQuery   == "SELECT * FROM tasks WHERE deleted=false"
IlikeClause == " AND title ILIKE :searchQuery"
OrderClause == " ORDER BY done"

NoArgs == [k \in {} |-> <<>>]

\* The query text, as the sequence of the pieces the code concatenates, and
\* the argument mapping the observer effect derives from the search term.
BuildQuery(term) ==
    IF term # <<>> /\ Trim(term) # <<>>
    THEN [ text |-> <<BaseQuery, IlikeClause, OrderClause>>,
           args |-> [k \in {"searchQuery"} |-> <<"%">> \o Trim(term) \o <<"%">>] ]
    ELSE [ text |-> <<BaseQuery, OrderClause>>,
           args |-> NoArgs ]

\* SQL LIKE with the % wildcard, compared case-insensitively.
RECURSIVE ILike(_, _)
ILike(s, p) ==
    IF p = <<>> THEN s = <<>>
    ELSE IF Head(p) = "%"
         THEN ILike(s, Tail(p)) \/ (s # <<>> /\ ILike(Tail(s), p))
         ELSE /\ s # <<>>
              /\ Lower(Head(s)) = Lower(Head(p))
              /\ ILike(Tail(s), Tail(p))

\* The store's documents as rows: the record at position i has _id i.
Rows(st) == [i \in 1..Len(st) |->
               [id |-> i, title |-> st[i].title, done |-> st[i].done,
                deleted |-> st[i].deleted]]

RowMatches(q, row) ==
    /\ (\E i \in 1..Len(q.text) : q.text[i] = BaseQuery) => ~row.deleted
    /\ (\E i \in 1..Len(q.text) : q.text[i] = IlikeClause)
          => ILike(row.title, q.args["searchQuery"])

IsNotDone(row) == ~row.done
IsDone(row) == row.done

\* What the store answers to an observer's query: the matching rows, ORDER BY
\* done (false before true), rows of equal done in _id order.
RunQuery(q, st) ==
    LET Match(row) == RowMatches(q, row)
        hits == SelectSeq(Rows(st), Match)
    IN  IF \E i \in 1..Len(q.text) : q.text[i] = OrderClause
        THEN SelectSeq(hits, IsNotDone) \o SelectSeq(hits, IsDone)
        ELSE hits

\* ---------------------------------------------------------------- state
VARIABLES
    status,              \* per mount: "unborn", "mounted" or "unmounted"
    error,               \* useState error (line 23): "none" or the kind of error
    dismissed,           \* useState dismissed of ErrorMessage (line 218)
    syncActive,          \* useState syncActive (line 28)
    isInitialized,       \* useState isInitialized (line 29): TRUE when it holds the promise
    dittoInstanceReady,  \* useState dittoInstanceReady (line 30)
    tasks,               \* useState tasks (line 32): the visible task list
    searchQuery,         \* useState searchQuery (line 33)
    updates,             \* per mount and state cell: the update that waits for a render
    effectsDue,          \* per mount: the effects of a committed render that have not run yet
    ditto,               \* ditto.current (line 24): TRUE when it holds the mount's instance
    tasksSubscription,   \* tasksSubscription.current (line 25): TRUE when it holds the handle
    tasksObserver,       \* tasksObserver.current (line 26): an observer handle, 0 for null
    localDittoInstance,  \* localDittoInstance of the instance effect (line 59)
    pc,                  \* where setupDittoInstance of the mount stands
    observerCleanup,     \* whether the last run of the observer effect returned its cleanup
    initCall,            \* the init() call of the mount: "none", "pending", "ok", "failed"
    instances,           \* the Ditto instance each mount constructed
    subscriptions,       \* the sync subscription each mount registered
    observers,           \* every store observer registered so far; a handle is an index
    store,               \* the tasks collection
    teardownLog,         \* per mount: the steps the instance effect's cleanup reached
    searchChanges,       \* how many times the search box was changed
    mutations,           \* how many mutations the user has issued
    loggedFailure,       \* whether the mutation handler that ended last called console.error
    executing            \* the execute calls whose promise has not settled

stateCells == <<error, dismissed, syncActive, isInitialized, dittoInstanceReady,
                tasks, searchQuery, updates, effectsDue>>
refs == <<ditto, tasksSubscription, tasksObserver>>
closures == <<localDittoInstance, pc, observerCleanup>>
sdk == <<initCall, instances, subscriptions, observers, store, executing>>
counters == <<searchChanges, mutations, loggedFailure>>
vars == <<status, stateCells, refs, closures, sdk, teardownLog, counters>>

NoInstance == [created |-> FALSE, transport |-> FALSE, v3Disabled |-> FALSE,
               syncing |-> FALSE, closed |-> FALSE, stopCalls |-> 0,
               closeCalls |-> 0, usedAfterClose |-> FALSE]
NoSubscription == [registered |-> FALSE, cancelCalls |-> 0]

\* No state update waits for a render.  Per state cell, <<>> or <<v>>: the
\* value the cell takes at the next render; of several calls of one setter
\* the last one counts.
NoUpdates == [error |-> <<>>, syncActive |-> <<>>, isInitialized |-> <<>>,
              dittoInstanceReady |-> <<>>, tasks |-> <<>>]

\* The state after construction: nothing is mounted, the store is empty.
Init ==
    /\ status = [m \in Mounts |-> "unborn"]
    /\ error = [m \in Mounts |-> "none"]
    /\ dismissed = [m \in Mounts |-> FALSE]
    /\ syncActive = [m \in Mounts |-> TRUE]
    /\ isInitialized = [m \in Mounts |-> FALSE]
    /\ dittoInstanceReady = [m \in Mounts |-> FALSE]
    /\ tasks = [m \in Mounts |-> <<>>]
    /\ searchQuery = [m \in Mounts |-> <<>>]
    /\ updates = [m \in Mounts |-> NoUpdates]
    /\ effectsDue = [m \in Mounts |-> {}]
    /\ ditto = [m \in Mounts |-> FALSE]
    /\ tasksSubscription = [m \in Mounts |-> FALSE]
    /\ tasksObserver = [m \in Mounts |-> 0]
    /\ localDittoInstance = [m \in Mounts |-> FALSE]
    /\ pc = [m \in Mounts |-> "idle"]
    /\ observerCleanup = [m \in Mounts |-> FALSE]
    /\ initCall = [m \in Mounts |-> "none"]
    /\ instances = [m \in Mounts |-> NoInstance]
    /\ subscriptions = [m \in Mounts |-> NoSubscription]
    /\ observers = <<>>
    /\ store = <<>>
    /\ teardownLog = [m \in Mounts |-> <<>>]
    /\ searchChanges = 0
    /\ mutations = 0
    /\ loggedFailure = FALSE
    /\ executing = <<>>

\* ---------------------------------------------------------------- helpers
Mounted(m) == status[m] = "mounted"

\* The setters called outside a React event: in a promise continuation, in an
\* SDK callback or in an effect.  The update waits, in upd, for the render
\* React schedules; the update of an unmounted component is dropped.

\* setError(e) (lines 42, 87, 147).
SetError(upd, m, kind) ==
    IF Mounted(m) THEN [upd EXCEPT ![m].error = <<kind>>] ELSE upd

\* setSyncActive(true) (line 76).
SetSyncActive(upd, m, value) ==
    IF Mounted(m) THEN [upd EXCEPT ![m].syncActive = <<value>>] ELSE upd

\* setDittoInstanceReady(true) (line 82).
SetDittoInstanceReady(upd, m, value) ==
    IF Mounted(m) THEN [upd EXCEPT ![m].dittoInstanceReady = <<value>>] ELSE upd

\* setTasks(newTasks) (line 140).
SetTasks(upd, m, newTasks) ==
    IF Mounted(m) THEN [upd EXCEPT ![m].tasks = <<newTasks>>] ELSE upd

\* The value of a state cell after the render that processes the update q.
Committed(q, value) == IF q # <<>> THEN q[1] ELSE value

\* handle.cancel() that does nothing.
CancelObserverNoop(obs, h) == obs

\* The query of an observer that holds nothing.
NoQuery == [text |-> <<>>, args |-> NoArgs]

\* The store keeps the query of a cancelled observer only while a callback of
\* it is still queued.
Settle(o) ==
    IF o.cancelCalls > 0 /\ o.pending = <<>>
    THEN [o EXCEPT !.term = <<>>, !.query = NoQuery]
    ELSE o

\* StoreObserver.cancel() (lines 99, 121, 153): counted, so that a handle is
\* live exactly when cancel() has not been called on it.
CancelObserver(obs, h) == [obs EXCEPT ![h] = Settle([@ EXCEPT !.cancelCalls = @ + 1])]

Live(obs, h) == obs[h].cancelCalls = 0

\* A registerObserver that registers the unfiltered query whatever the term.
RegisterObserverUnfiltered(obs, m, term, st) ==
    Append(obs, [owner |-> m, term |-> term, query |-> BuildQuery(<<>>),
                 cancelCalls |-> 0,
                 pending |-> <<RunQuery(BuildQuery(<<>>), st)>>])

\* store.registerObserver(query, callback, queryArgs) (lines 135-143): the new
\* handle is the next index; the store queues the first callback with the
\* current result of the query.
RegisterObserver(obs, m, term, st) ==
    Append(obs, [owner |-> m, term |-> term, query |-> BuildQuery(term),
                 cancelCalls |-> 0,
                 pending |-> <<RunQuery(BuildQuery(term), st)>>])

\* An observer effect whose failed registerObserver leaves a handle behind.
ObserversAfterEffectPartial(obs, r, m, term, st, regFail) ==
    RegisterObserver(IF r # 0 THEN CancelObserver(obs, r) ELSE obs, m, term, st)

\* The observer effect past its guard (lines 119-148), on the observers obs
\* with tasksObserver.current = r: cancel what the ref holds, then register;
\* regFail says that registerObserver throws.
ObserversAfterEffect(obs, r, m, term, st, regFail) ==
    LET o1 == IF r # 0 THEN CancelObserver(obs, r) ELSE obs
    IN  IF regFail THEN o1 ELSE RegisterObserver(o1, m, term, st)

RefAfterEffect(obs, r, regFail) == IF regFail THEN r ELSE Len(obs) + 1

\* The cleanup of the previous run of the observer effect (lines 150-156),
\* which exists when that run went past the guard: what it leaves of the
\* observers and of tasksObserver.current.
ObserversAfterCleanup(m) ==
    IF observerCleanup[m] /\ tasksObserver[m] # 0
    THEN CancelObserver(observers, tasksObserver[m])
    ELSE observers

RefAfterCleanup(m) == IF observerCleanup[m] THEN 0 ELSE tasksObserver[m]

\* React runs the observer effect again (lines 112-157) in a render whose
\* search term is term: the cleanup of the previous run, then the effect,
\* which returns at its guard (line 113) or cancels, registers and returns a
\* cleanup.  regFail says that registerObserver throws.
ObserverEffect(m, term, regFail) ==
    IF dittoInstanceReady[m] /\ ditto[m]
    THEN /\ observers' = ObserversAfterEffect(ObserversAfterCleanup(m),
                               RefAfterCleanup(m), m, term, store, regFail)
         /\ tasksObserver' = [tasksObserver EXCEPT ![m] =
                  RefAfterEffect(ObserversAfterCleanup(m), RefAfterCleanup(m), regFail)]
         /\ observerCleanup' = [observerCleanup EXCEPT ![m] = TRUE]
    ELSE /\ observers' = ObserversAfterCleanup(m)
         /\ tasksObserver' = [tasksObserver EXCEPT ![m] = RefAfterCleanup(m)]
         /\ observerCleanup' = [observerCleanup EXCEPT ![m] = FALSE]

\* The store tells every live observer whose result changed (st to st2).
Notify(obs, st, st2) ==
    [h \in DOMAIN obs |->
        IF Live(obs, h) /\ RunQuery(obs[h].query, st2) # RunQuery(obs[h].query, st)
        THEN [obs[h] EXCEPT !.pending = Append(@, RunQuery(obs[h].query, st2))]
        ELSE obs[h]]

\* ---------------------------------------------------------------- mount
\* The effects of the component, in the order React runs them: the bootstrap
\* effect (lines 35-50), the instance effect (lines 53-109) and the observer
\* effect (lines 112-157).
Effects == {"bootstrap", "instance", "observer"}

\* The component is mounted (lines 22-33, 236-254): the first render and its
\* commit.  The first run of the three effects is due.
Mount(m) ==
    /\ status[m] = "unborn"
    /\ \A k \in Mounts : k < m => status[k] = "unmounted"
    /\ status' = [status EXCEPT ![m] = "mounted"]
    /\ effectsDue' = [effectsDue EXCEPT ![m] = Effects]
    /\ UNCHANGED <<error, dismissed, syncActive, isInitialized,
                   dittoInstanceReady, tasks, searchQuery, updates, refs,
                   closures, sdk, teardownLog, counters>>

\* The render React schedules for the updates made outside its events (lines
\* 42, 48, 76, 82, 87, 140, 147): one render commits all that are waiting.
\* Every render of App defines a new ErrorMessage component (line 217), whose
\* dismissed state starts at false.  The effects whose dependencies changed
\* (isInitialized for the instance effect, dittoInstanceReady for the observer
\* effect) are due after the commit.  React runs the effects that are due
\* before it renders again.
Render(m) ==
    /\ Mounted(m)
    /\ effectsDue[m] = {}
    /\ updates[m] # NoUpdates
    /\ error' = [error EXCEPT ![m] = Committed(updates[m].error, @)]
    /\ syncActive' = [syncActive EXCEPT ![m] = Committed(updates[m].syncActive, @)]
    /\ isInitialized' =
          [isInitialized EXCEPT ![m] = Committed(updates[m].isInitialized, @)]
    /\ dittoInstanceReady' =
          [dittoInstanceReady EXCEPT ![m] = Committed(updates[m].dittoInstanceReady, @)]
    /\ tasks' = [tasks EXCEPT ![m] = Committed(updates[m].tasks, @)]
    /\ dismissed' = [dismissed EXCEPT ![m] = FALSE]
    /\ updates' = [updates EXCEPT ![m] = NoUpdates]
    /\ effectsDue' = [effectsDue EXCEPT ![m] =
          (IF Committed(updates[m].isInitialized, isInitialized[m]) # isInitialized[m]
           THEN {"instance"} ELSE {})
          \cup
          (IF Committed(updates[m].dittoInstanceReady, dittoInstanceReady[m])
                 # dittoInstanceReady[m]
           THEN {"observer"} ELSE {})]
    /\ UNCHANGED <<status, searchQuery, refs, closures, sdk, teardownLog, counters>>

\* The bootstrap effect (lines 35-50), which runs after the first render
\* only: isInitialized is null, so init() is called and its promise handed to
\* setIsInitialized (line 48), an update that waits for the render.
UpdatesAfterBootstrap(m) ==
    IF isInitialized[m] THEN updates
    ELSE [updates EXCEPT ![m].isInitialized = <<TRUE>>]

\* The effects that are due after a render run.  The bootstrap effect.  The
\* instance effect (lines 53-91): it returns at its guard (line 54) while
\* isInitialized is null; otherwise setupDittoInstance starts and suspends
\* at `await isInitialized`, and the effect returns its cleanup.  The
\* observer effect (lines 112-157), in which a registerObserver that throws
\* (regFail) ends in setError (line 147).
RunEffects(m, regFail) ==
    /\ Mounted(m)
    /\ effectsDue[m] # {}
    /\ regFail => ("observer" \in effectsDue[m] /\ dittoInstanceReady[m] /\ ditto[m])
    /\ effectsDue' = [effectsDue EXCEPT ![m] = {}]
    /\ initCall' = IF "bootstrap" \in effectsDue[m] /\ ~isInitialized[m]
                   THEN [initCall EXCEPT ![m] = "pending"] ELSE initCall
    /\ pc' = IF "instance" \in effectsDue[m] /\ isInitialized[m]
             THEN [pc EXCEPT ![m] = "awaitInit"] ELSE pc
    /\ IF "observer" \in effectsDue[m]
       THEN ObserverEffect(m, searchQuery[m], regFail)
       ELSE UNCHANGED <<observers, tasksObserver, observerCleanup>>
    /\ updates' = LET upd == IF "bootstrap" \in effectsDue[m]
                              THEN UpdatesAfterBootstrap(m) ELSE updates
                  IN  IF regFail THEN SetError(upd, m, "observer") ELSE upd
    /\ UNCHANGED <<status, error, dismissed, syncActive, isInitialized,
                   dittoInstanceReady, tasks, searchQuery, ditto,
                   tasksSubscription, localDittoInstance, instances,
                   subscriptions, store, executing, teardownLog, counters>>

\* init() settles (lines 37-43).  initializeDittoSDK catches the rejection and
\* calls setError, so the promise stored in isInitialized fulfils either way.
InitSettles(m, ok) ==
    /\ initCall[m] = "pending"
    /\ initCall' = [initCall EXCEPT ![m] = IF ok THEN "ok" ELSE "failed"]
    /\ updates' = IF ok THEN updates ELSE SetError(updates, m, "init")
    /\ UNCHANGED <<status, error, dismissed, syncActive, isInitialized,
                   dittoInstanceReady, tasks, searchQuery, effectsDue, refs,
                   closures, instances, subscriptions, observers, store,
                   executing, teardownLog, counters>>

\* setupDittoInstance from `await isInitialized` to `await
\* newDitto.disableSyncWithV3()` (lines 62-74).  fail names the call that
\* throws: "create" for new Ditto(identity), "transport" for
\* setTransportConfig; the catch calls setError (line 87).  It runs whether
\* or not the component is still mounted.
SetupAfterInit(m, fail) ==
    /\ pc[m] = "awaitInit"
    /\ initCall[m] \in {"ok", "failed"}
    /\ fail \in {"none", "create", "transport"}
    /\ IF fail = "create"
       THEN UNCHANGED <<instances, localDittoInstance, ditto>>
       ELSE /\ instances' = [instances EXCEPT ![m] =
                                [NoInstance EXCEPT !.created = TRUE,
                                                   !.transport = (fail = "none")]]
            /\ localDittoInstance' = [localDittoInstance EXCEPT ![m] = TRUE]
            /\ ditto' = [ditto EXCEPT ![m] = TRUE]
    /\ pc' = [pc EXCEPT ![m] = IF fail = "none" THEN "awaitV3" ELSE "failed"]
    /\ updates' = IF fail = "none" THEN updates ELSE SetError(updates, m, "setup")
    /\ UNCHANGED <<status, error, dismissed, syncActive, isInitialized,
                   dittoInstanceReady, tasks, searchQuery, effectsDue,
                   tasksSubscription, tasksObserver, observerCleanup, initCall,
                   subscriptions, observers, store, executing, teardownLog,
                   counters>>

\* A setup chain that starts sync without asking for syncActive = true.
SyncActiveAfterStartUnset(m, started) == updates

\* setSyncActive(true) after newDitto.startSync() (lines 75-76).
SyncActiveAfterStart(m, started) ==
    IF started THEN SetSyncActive(updates, m, TRUE) ELSE updates

\* setupDittoInstance after disableSyncWithV3 settles (lines 74-88).  fail
\* names the call that throws: "disable", "startSync" or "subscription".
\* setSyncActive(true), setDittoInstanceReady(true) and the setError of the
\* catch wait for the render.
SetupAfterV3(m, fail) ==
    /\ pc[m] = "awaitV3"
    /\ fail \in {"none", "disable", "startSync", "subscription"}
    /\ LET inst == instances[m]
           called == fail # "disable"
           started == fail \in {"none", "subscription"}
       IN  /\ instances' = [instances EXCEPT ![m] =
                 [inst EXCEPT !.v3Disabled = called,
                              !.syncing = IF started /\ ~inst.closed THEN TRUE ELSE @,
                              !.usedAfterClose = @ \/ (called /\ inst.closed)]]
           /\ updates' = IF fail = "none"
                         THEN SetDittoInstanceReady(SyncActiveAfterStart(m, started), m, TRUE)
                         ELSE SetError(SyncActiveAfterStart(m, started), m, "setup")
           /\ IF fail = "none"
              THEN /\ subscriptions' = [subscriptions EXCEPT ![m].registered = TRUE]
                   /\ tasksSubscription' = [tasksSubscription EXCEPT ![m] = TRUE]
              ELSE UNCHANGED <<subscriptions, tasksSubscription>>
    /\ pc' = [pc EXCEPT ![m] = IF fail = "none" THEN "done" ELSE "failed"]
    /\ UNCHANGED <<status, error, dismissed, syncActive, isInitialized,
                   dittoInstanceReady, tasks, searchQuery, effectsDue, ditto,
                   tasksObserver, localDittoInstance, observerCleanup, initCall,
                   observers, store, executing, teardownLog, counters>>

\* ---------------------------------------------------------------- teardown
\* The steps of the instance effect's cleanup (lines 95-106), in program order.
TeardownSteps == <<"cancelSubscription", "cancelObserver", "stopSync", "close",
                   "clearReferences">>

\* How many of the steps the cleanup reaches when the call named by fail
\* throws: a throwing call ends the function there.
StepsReached(fail) ==
    CASE fail = "stopSync" -> 3
      [] fail = "close" -> 4
      [] OTHER -> 5

\* The cleanup of the instance effect on the SDK objects and the refs of mount
\* m (lines 93-108).  fail names the call that throws, "stopSync" or "close";
\* a call that throws has changed nothing.  cancel() of a handle only marks
\* the handle and is taken not to throw.
CleanupInstances(m, fail) ==
    IF localDittoInstance[m]
    THEN [instances EXCEPT ![m] =
            [@ EXCEPT !.stopCalls = @ + 1,
                      !.syncing = IF fail = "stopSync" THEN @ ELSE FALSE,
                      !.closeCalls = IF fail = "stopSync" THEN @ ELSE @ + 1,
                      !.closed = IF fail = "none" THEN TRUE ELSE @]]
    ELSE instances

CleanupSubscriptions(m) ==
    IF tasksSubscription[m]
    THEN [subscriptions EXCEPT ![m].cancelCalls = @ + 1]
    ELSE subscriptions

CleanupObservers(m) ==
    IF tasksObserver[m] # 0
    THEN CancelObserver(observers, tasksObserver[m])
    ELSE observers

\* The instance effect of mount m returned its cleanup: it ran past the guard
\* of line 54.
HasInstanceCleanup(m) == pc[m] # "idle"

\* The component is unmounted, after the effects that were due have run:
\* React runs the cleanup of the instance effect (lines 93-108), when the
\* effect returned one, and then the cleanup of the observer effect (lines
\* 150-156), which finds tasksObserver.current already null.  Callbacks the
\* store has queued stay queued.  The component's state cells go away with
\* it, and so do the updates that waited for a render; the model gives the
\* cells their initial values back.
Unmount(m, fail) ==
    /\ Mounted(m)
    /\ effectsDue[m] = {}
    /\ fail \in {"none", "stopSync", "close"}
    /\ fail # "none" => (HasInstanceCleanup(m) /\ localDittoInstance[m])
    /\ status' = [status EXCEPT ![m] = "unmounted"]
    /\ IF HasInstanceCleanup(m)
       THEN /\ subscriptions' = CleanupSubscriptions(m)
            /\ tasksSubscription' = [tasksSubscription EXCEPT ![m] = FALSE]
            /\ observers' = CleanupObservers(m)
            /\ tasksObserver' = [tasksObserver EXCEPT ![m] = 0]
            /\ instances' = CleanupInstances(m, fail)
            /\ ditto' = IF fail = "none" THEN [ditto EXCEPT ![m] = FALSE] ELSE ditto
            /\ teardownLog' = [teardownLog EXCEPT ![m] =
                                  SubSeq(TeardownSteps, 1, StepsReached(fail))]
       ELSE UNCHANGED <<subscriptions, tasksSubscription, observers,
                        tasksObserver, instances, ditto, teardownLog>>
    /\ observerCleanup' = [observerCleanup EXCEPT ![m] = FALSE]
    /\ error' = [error EXCEPT ![m] = "none"]
    /\ dismissed' = [dismissed EXCEPT ![m] = FALSE]
    /\ syncActive' = [syncActive EXCEPT ![m] = TRUE]
    /\ updates' = [updates EXCEPT ![m] = NoUpdates]
    /\ isInitialized' = [isInitialized EXCEPT ![m] = FALSE]
    /\ dittoInstanceReady' = [dittoInstanceReady EXCEPT ![m] = FALSE]
    /\ tasks' = [tasks EXCEPT ![m] = <<>>]
    /\ searchQuery' = [searchQuery EXCEPT ![m] = <<>>]
    /\ UNCHANGED <<effectsDue, localDittoInstance, pc, initCall, store,
                   executing, counters>>

\* The cleanup function of the instance effect called once more (lines
\* 93-108), right after a first call that ran to its end.
CleanupAgain(m, fail) ==
    /\ status[m] = "unmounted"
    /\ teardownLog[m] = TeardownSteps
    /\ instances[m].stopCalls < 2
    /\ fail \in {"none", "stopSync", "close"}
    /\ fail # "none" => localDittoInstance[m]
    /\ subscriptions' = CleanupSubscriptions(m)
    /\ tasksSubscription' = [tasksSubscription EXCEPT ![m] = FALSE]
    /\ observers' = CleanupObservers(m)
    /\ tasksObserver' = [tasksObserver EXCEPT ![m] = 0]
    /\ instances' = CleanupInstances(m, fail)
    /\ ditto' = IF fail = "none" THEN [ditto EXCEPT ![m] = FALSE] ELSE ditto
    /\ teardownLog' = [teardownLog EXCEPT ![m] = SubSeq(TeardownSteps, 1, StepsReached(fail))]
    /\ UNCHANGED <<status, stateCells, closures, initCall, store, executing,
                   counters>>

\* ---------------------------------------------------------------- user events
\* The bound on the search changes and mutations of one run is not reached.
EventsLeft == searchChanges + mutations < MaxEvents

\* toggleSync (lines 159-166) with the render of its event, which commits its
\* setSyncActive and leaves the updates made outside events waiting.  A
\* setSyncActive(true) of line 76 that is waiting was called before this one:
\* the render that processes both ends with the value set here.
ToggleSync(m) ==
    /\ Mounted(m)
    /\ effectsDue[m] = {}
    /\ instances' = IF ditto[m]
                    THEN [instances EXCEPT ![m].syncing = ~syncActive[m]]
                    ELSE instances
    /\ syncActive' = [syncActive EXCEPT ![m] = ~@]
    /\ updates' = IF updates[m].syncActive # <<>>
                  THEN [updates EXCEPT ![m].syncActive = <<~syncActive[m]>>]
                  ELSE updates
    /\ dismissed' = [dismissed EXCEPT ![m] = FALSE]
    /\ UNCHANGED <<status, error, isInitialized, dittoInstanceReady, tasks,
                   searchQuery, effectsDue, refs, closures, initCall,
                   subscriptions, observers, store, executing, teardownLog,
                   counters>>

\* The search box changes (line 246): setSearchQuery(term), the render of the
\* event, the cleanup of the previous run of the observer effect (lines
\* 150-156) and the new run of the effect (lines 112-148), all in the event.
\* The updates made outside events stay waiting, and the setError of a
\* registerObserver that throws (regFail, line 147) joins them.
SetSearchQuery(m, term, regFail) ==
    /\ Mounted(m)
    /\ effectsDue[m] = {}
    /\ term \in SearchTerms
    /\ term # searchQuery[m]
    /\ searchChanges < MaxSearchChanges
    /\ EventsLeft
    /\ regFail => (dittoInstanceReady[m] /\ ditto[m])
    /\ searchQuery' = [searchQuery EXCEPT ![m] = term]
    /\ searchChanges' = searchChanges + 1
    /\ ObserverEffect(m, term, regFail)
    /\ updates' = IF regFail THEN SetError(updates, m, "observer") ELSE updates
    /\ dismissed' = [dismissed EXCEPT ![m] = FALSE]
    /\ UNCHANGED <<status, error, syncActive, isInitialized, dittoInstanceReady,
                   tasks, effectsDue, ditto, tasksSubscription,
                   localDittoInstance, pc, initCall, instances, subscriptions,
                   store, executing, teardownLog, mutations, loggedFailure>>

\* The user closes the error box (line 226): setDismissed(true) and the
\* render of ErrorMessage.
Dismiss(m) ==
    /\ Mounted(m)
    /\ effectsDue[m] = {}
    /\ error[m] # "none"
    /\ ~dismissed[m]
    /\ dismissed' = [dismissed EXCEPT ![m] = TRUE]
    /\ UNCHANGED <<status, error, syncActive, isInitialized, dittoInstanceReady,
                   tasks, searchQuery, updates, effectsDue, refs, closures, sdk,
                   teardownLog, counters>>

\* ---------------------------------------------------------------- callbacks
\* The store invokes the callback of observer h with the oldest queued result
\* (lines 137-141): setTasks(newTasks), with no look at the handle.  The new
\* list waits for the render.
DeliverCallback(h) ==
    /\ h \in DOMAIN observers
    /\ observers[h].pending # <<>>
    /\ observers' = [observers EXCEPT ![h] = Settle([@ EXCEPT !.pending = Tail(@)])]
    /\ updates' = SetTasks(updates, observers[h].owner, Head(observers[h].pending))
    /\ UNCHANGED <<status, error, dismissed, syncActive, isInitialized,
                   dittoInstanceReady, tasks, searchQuery, effectsDue, refs,
                   closures, initCall, instances, subscriptions, store,
                   executing, teardownLog, counters>>

\* The store discards a queued callback of a cancelled observer instead of
\* invoking it: whether a callback already queued at cancel() is still
\* invoked is up to the SDK.
DropCallback(h) ==
    /\ h \in DOMAIN observers
    /\ observers[h].pending # <<>>
    /\ ~Live(observers, h)
    /\ observers' = [observers EXCEPT ![h] = Settle([@ EXCEPT !.pending = Tail(@)])]
    /\ UNCHANGED <<status, stateCells, refs, closures, initCall, instances,
                   subscriptions, store, executing, teardownLog, counters>>

\* ---------------------------------------------------------------- mutations
\* No live observer's queue is full: the bound on queued callbacks.
QueuesHaveRoom ==
    \A h \in DOMAIN observers :
        Live(observers, h) => Len(observers[h].pending) < MaxPending

\* The DQL statements of the four handlers with their arguments (lines 171,
\* 186, 197, 209).
InsertStatement(title) ==
    [kind |-> "insert", id |-> 0, title |-> title, done |-> FALSE]
UpdateTitleStatement(id, title) ==
    [kind |-> "setTitle", id |-> id, title |-> title, done |-> FALSE]
UpdateDoneStatement(id, done) ==
    [kind |-> "setDone", id |-> id, title |-> <<>>, done |-> done]
UpdateDeletedStatement(id) ==
    [kind |-> "setDeleted", id |-> id, title |-> <<>>, done |-> FALSE]

\* A store in which UPDATE tasks SET deleted=true removes the document.
ApplyStatementRemoving(stmt, st) ==
    CASE stmt.kind = "insert" ->
            Append(st, [title |-> stmt.title, done |-> FALSE, deleted |-> FALSE])
      [] stmt.kind = "setTitle" -> [st EXCEPT ![stmt.id].title = stmt.title]
      [] stmt.kind = "setDone" -> [st EXCEPT ![stmt.id].done = stmt.done]
      [] stmt.kind = "setDeleted" ->
            SubSeq(st, 1, stmt.id - 1) \o SubSeq(st, stmt.id + 1, Len(st))

\* What a statement does to the collection: INSERT INTO tasks DOCUMENTS
\* (:task) with done and deleted false (lines 171-177), UPDATE tasks SET
\* title / done / deleted=true WHERE _id=:id (lines 186, 197, 209).
ApplyStatement(stmt, st) ==
    CASE stmt.kind = "insert" ->
            Append(st, [title |-> stmt.title, done |-> FALSE, deleted |-> FALSE])
      [] stmt.kind = "setTitle" -> [st EXCEPT ![stmt.id].title = stmt.title]
      [] stmt.kind = "setDone" -> [st EXCEPT ![stmt.id].done = stmt.done]
      [] stmt.kind = "setDeleted" -> [st EXCEPT ![stmt.id].deleted = TRUE]

\* `await ditto.current?.store.execute(...)` up to the await (lines 171, 186,
\* 197, 209): with an instance in ditto.current, execute is called and the
\* handler waits for its promise; with none, nothing is called, nothing is
\* thrown and the handler ends without reporting anything.
Execute(m, stmt) ==
    /\ Mounted(m)
    /\ mutations < MaxMutations
    /\ mutations' = mutations + 1
    /\ IF ditto[m]
       THEN /\ Len(executing) < MaxInFlight
            /\ executing' = Append(executing, stmt)
            /\ UNCHANGED loggedFailure
       ELSE /\ loggedFailure' = FALSE
            /\ UNCHANGED executing
    /\ UNCHANGED <<status, stateCells, refs, closures, initCall, instances,
                   subscriptions, observers, store, teardownLog, searchChanges>>

\* The sequence s without its i-th element.
Without(s, i) == SubSeq(s, 1, i - 1) \o SubSeq(s, i + 1, Len(s))

\* A handler that puts a rejected execute into the error state.
ExecuteSettlesSurfacing(i, rejects) ==
    /\ i \in 1..Len(executing)
    /\ executing' = Without(executing, i)
    /\ loggedFailure' = rejects
    /\ IF rejects
       THEN /\ UNCHANGED <<store, observers>>
            /\ updates' = [m \in Mounts |-> SetError(updates, m, "mutation")[m]]
       ELSE /\ QueuesHaveRoom
            /\ store' = ApplyStatement(executing[i], store)
            /\ observers' = Notify(observers, store, ApplyStatement(executing[i], store))
            /\ UNCHANGED updates
    /\ UNCHANGED <<status, error, dismissed, syncActive, isInitialized,
                   dittoInstanceReady, tasks, searchQuery, effectsDue, refs,
                   closures, initCall, instances, subscriptions, teardownLog,
                   searchChanges, mutations>>

\* The promise of the i-th execute in flight settles and its handler resumes
\* (lines 178-180, 190-192, 201-203, 212-214): a rejection is caught and
\* logged with console.error, nothing else; a fulfilled execute has written
\* to the store, and the store tells the live observers.  It happens whether
\* or not the component is still mounted.
ExecuteSettles(i, rejects) ==
    /\ i \in 1..Len(executing)
    /\ executing' = Without(executing, i)
    /\ loggedFailure' = rejects
    /\ IF rejects
       THEN UNCHANGED <<store, observers>>
       ELSE /\ QueuesHaveRoom
            /\ store' = ApplyStatement(executing[i], store)
            /\ observers' = Notify(observers, store, ApplyStatement(executing[i], store))
    /\ UNCHANGED <<status, stateCells, refs, closures, initCall, instances,
                   subscriptions, teardownLog, searchChanges, mutations>>

\* The records the store holds or is about to hold: the bound on createTask.
InsertsInFlight ==
    Len(SelectSeq(executing, LAMBDA stmt : stmt.kind = "insert"))

\* createTask(title) (lines 169-181).
CreateTask(m, title) ==
    /\ Len(store) + InsertsInFlight < MaxTasks
    /\ Execute(m, InsertStatement(title))

\* The tasks the list shows, which TaskList hands back to the handlers (line 250).
Shown(m) == { tasks[m][i] : i \in 1..Len(tasks[m]) }

\* editTask(id, title) (lines 184-193).
EditTask(m, id, title) ==
    /\ id \in { t.id : t \in Shown(m) }
    /\ Execute(m, UpdateTitleStatement(id, title))

\* A toggleTask that negates the done value it reads from the store.
ToggleTaskReread(m, task) ==
    /\ task \in Shown(m)
    /\ Execute(m, UpdateDoneStatement(task.id, ~store[task.id].done))

\* toggleTask(task) (lines 195-204): done becomes the negation of task.done,
\* the value in the list at the time of the call.
ToggleTask(m, task) ==
    /\ task \in Shown(m)
    /\ Execute(m, UpdateDoneStatement(task.id, ~task.done))

\* deleteTask(task) (lines 207-215).
DeleteTask(m, task) ==
    /\ task \in Shown(m)
    /\ Execute(m, UpdateDeletedStatement(task.id))

\* ---------------------------------------------------------------- specification
TaskValues ==
    [id : 1..MaxTasks, title : Titles, done : BOOLEAN, deleted : BOOLEAN]

\* The application starts: the root component is mounted.
DoMount == Mount(1)
\* The component is mounted again after it was unmounted.
DoRemount == \E m \in Mounts : m > 1 /\ Mount(m)
DoRender == \E m \in Mounts : Render(m)
DoRunEffects == \E m \in Mounts, regFail \in BOOLEAN : RunEffects(m, regFail)
DoInitSettles == \E m \in Mounts, ok \in BOOLEAN : InitSettles(m, ok)
DoSetupAfterInit ==
    \E m \in Mounts, fail \in {"none", "create", "transport"} : SetupAfterInit(m, fail)
DoSetupAfterV3 ==
    \E m \in Mounts, fail \in {"none", "disable", "startSync", "subscription"} :
        SetupAfterV3(m, fail)
DoUnmount == \E m \in Mounts, fail \in {"none", "stopSync", "close"} : Unmount(m, fail)
DoToggleSync == \E m \in Mounts : ToggleSync(m)
DoSetSearchQuery ==
    \E m \in Mounts, term \in SearchTerms, regFail \in BOOLEAN :
        SetSearchQuery(m, term, regFail)
DoDismiss == \E m \in Mounts : Dismiss(m)
DoDeliverCallback == \E h \in DOMAIN observers : DeliverCallback(h)
DoDropCallback == \E h \in DOMAIN observers : DropCallback(h)
DoCreateTask == \E m \in Mounts, title \in Titles : CreateTask(m, title)
DoEditTask ==
    \E m \in Mounts, id \in 1..MaxTasks, title \in Titles : EditTask(m, id, title)
DoToggleTask == \E m \in Mounts, task \in TaskValues : ToggleTask(m, task)
DoDeleteTask == \E m \in Mounts, task \in TaskValues : DeleteTask(m, task)
DoExecuteSettles ==
    \E i \in 1..MaxInFlight, rejects \in BOOLEAN : ExecuteSettles(i, rejects)
DoCleanupAgain ==
    \E m \in Mounts, fail \in {"none", "stopSync", "close"} : CleanupAgain(m, fail)

\* What happens while the component lives: everything but mounting it.
Lifecycle ==
    \/ DoRender
    \/ DoRunEffects
    \/ DoInitSettles
    \/ DoSetupAfterInit
    \/ DoSetupAfterV3
    \/ DoUnmount
    \/ DoToggleSync
    \/ DoSetSearchQuery
    \/ DoDismiss
    \/ DoDeliverCallback
    \/ DoDropCallback

Mutation ==
    \/ DoCreateTask
    \/ DoEditTask
    \/ DoToggleTask
    \/ DoDeleteTask
    \/ DoExecuteSettles

\* The mutations where every other operation of the component may come in
\* between: the handlers are called while the bound on the user's events is
\* not reached.
MutationAmongEvents ==
    \/ (EventsLeft /\ DoCreateTask)
    \/ (EventsLeft /\ DoEditTask)
    \/ (EventsLeft /\ DoToggleTask)
    \/ (EventsLeft /\ DoDeleteTask)
    \/ DoExecuteSettles

\* The application as index.html starts it: App is mounted once, and every
\* operation of the component may follow.
Next ==
    \/ DoMount
    \/ Lifecycle
    \/ MutationAmongEvents

Spec == Init /\ [][Next]_vars

\* The component mounted, unmounted and mounted again, up to MaxMounts times,
\* with the lifecycle operations and no mutation of the store.
NextRemount ==
    \/ DoMount
    \/ DoRemount
    \/ Lifecycle

SpecRemount == Init /\ [][NextRemount]_vars

\* The user types a word of a title in the search box before working on the
\* tasks, and the observer is registered for it.
DoSearchTitle ==
    /\ searchChanges + mutations = 0
    /\ \E m \in Mounts, term \in TitleSearchTerms : SetSearchQuery(m, term, FALSE)

\* The component mounted once and set up; the user may search for a word of
\* a title and then works on the tasks: the mutations of the store, the
\* callbacks of the observers and the renders of the lists they deliver.
NextStore ==
    \/ DoMount
    \/ DoRender
    \/ DoRunEffects
    \/ DoInitSettles
    \/ DoSetupAfterInit
    \/ DoSetupAfterV3
    \/ DoSearchTitle
    \/ DoDeliverCallback
    \/ Mutation

SpecStore == Init /\ [][NextStore]_vars

\* The program with the instance effect's cleanup called a second time.
NextTwice ==
    \/ Next
    \/ DoCleanupAgain

SpecTwice == Init /\ [][NextTwice]_vars

\* The component mounted once, with its lifecycle operations; the renders
\* React has scheduled and the effects that are due are run, and the promises
\* of init() and disableSyncWithV3() settle, sooner or later.
NextLive ==
    \/ DoMount
    \/ Lifecycle

Fairness ==
    /\ WF_vars(DoRender)
    /\ WF_vars(DoRunEffects)
    /\ WF_vars(DoInitSettles)
    /\ WF_vars(DoSetupAfterInit)
    /\ WF_vars(DoSetupAfterV3)

SpecLive == Init /\ [][NextLive]_vars /\ Fairness

\* ---------------------------------------------------------------- claims
Handles == DOMAIN observers

\* No call of the bootstrap or of the setup chain of mount m has failed.
NoSetupFault(m) == initCall[m] # "failed" /\ pc[m] # "failed"

\* C1: in every reachable state at most one observer handle is live
\* (registered, cancel() not yet called on it); whenever a new handle has been
\* registered, every older handle has been cancelled.
C1_AtMostOneLiveObserver ==
    \A h1, h2 \in Handles :
        (Live(observers, h1) /\ Live(observers, h2)) => h1 = h2

\* C1 witness: a search-term change has replaced the observer of a mounted
\* component: the older handle is cancelled, the newer one is live.
C1_Witness ==
    \E h1, h2 \in Handles :
        /\ h1 < h2
        /\ observers[h1].owner = observers[h2].owner
        /\ Mounted(observers[h2].owner)
        /\ ~Live(observers, h1)
        /\ Live(observers, h2)
        /\ tasksObserver[observers[h2].owner] = h2

\* C2: the visible task list of a mounted component is replaced only by the
\* callback of the handle that is live and held in tasksObserver.current: a
\* step that hands a new list to setTasks delivers the oldest queued result
\* of that handle, and a step that changes the visible list is the render of
\* the list handed over last.
C2_OnlyActiveHandleWrites ==
    [][\A m \in Mounts :
          (Mounted(m) /\ status'[m] = "mounted")
          => /\ (updates'[m].tasks # updates[m].tasks /\ updates'[m].tasks # <<>>)
                => LET h == tasksObserver[m]
                   IN  /\ h # 0
                       /\ Live(observers, h)
                       /\ observers[h].pending # <<>>
                       /\ updates'[m].tasks = <<Head(observers[h].pending)>>
                       /\ observers'[h].pending = Tail(observers[h].pending)
             /\ tasks'[m] # tasks[m] => updates[m].tasks = <<tasks'[m]>>]_vars

\* C3: once a component is unmounted and its pending async steps (init,
\* setupDittoInstance) have all run, the instance of that mount is neither
\* open nor syncing and its subscription and observers are cancelled.  Stated
\* for the runs in which no call failed: init() fulfilled, the setup chain
\* ran to its end and so did the cleanup.
C3_NothingLeakedAfterUnmount ==
    \A m \in Mounts :
        ( /\ status[m] = "unmounted"
          /\ teardownLog[m] = TeardownSteps
          /\ initCall[m] = "ok"
          /\ pc[m] = "done" )
        => /\ instances[m].created => (instances[m].closed /\ ~instances[m].syncing)
           /\ subscriptions[m].registered => subscriptions[m].cancelCalls > 0
           /\ \A h \in Handles : observers[h].owner = m => ~Live(observers, h)

\* C4: when init() has failed, the error is in the error state of the mounted
\* component, or handed to setError and waiting for the render, and
\* setupDittoInstance goes no further than its wait for init:
\* no instance is constructed for that mount, and there is no transport
\* configuration, no startSync and no subscription.
C4_NoInstanceAfterFailedInit ==
    \A m \in Mounts :
        initCall[m] = "failed"
        => /\ Mounted(m) => (error[m] # "none" \/ updates[m].error # <<>>)
           /\ pc[m] \in {"idle", "awaitInit"}
           /\ ~instances[m].created
           /\ ~instances[m].transport
           /\ ~instances[m].syncing
           /\ ~subscriptions[m].registered

\* C5: ditto.current holds the instance only when the whole setup chain has
\* succeeded; while a step is in flight, or after a step has failed, it is
\* null, so that no mutation and no toggleSync can reach the instance.
C5_PublishedOnlyAfterSetup ==
    \A m \in Mounts : ditto[m] => pc[m] = "done"

\* C6: an instance syncs only after setTransportConfig was applied and
\* disableSyncWithV3 completed on it, and an instance exists only after
\* init() has completed.  Stated for the runs in which no setup call failed.
C6_SetupOrder ==
    \A m \in Mounts :
        NoSetupFault(m)
        => /\ instances[m].syncing
                => (instances[m].transport /\ instances[m].v3Disabled)
           /\ instances[m].created => initCall[m] = "ok"

\* C7: the teardown of an unmounted component has executed, in this order,
\* cancel subscription, cancel observer, stop sync, close instance, clear
\* references: all five, whether or not one of them threw.  Stated for the
\* components whose instance effect had returned its cleanup, and for the
\* runs in which no setup call failed.
C7_TeardownRunsEveryStep ==
    \A m \in Mounts :
        (status[m] = "unmounted" /\ HasInstanceCleanup(m) /\ NoSetupFault(m))
        => teardownLog[m] = TeardownSteps

\* C8: however often the cleanup runs, no resource is released twice:
\* stopSync and close are called at most once by it on an instance, cancel
\* at most once on a subscription and on an observer.  Stated, for the
\* instance and the subscription, for the runs in which no setup call failed.
C8_TeardownIdempotent ==
    /\ \A m \in Mounts :
          NoSetupFault(m)
          => /\ instances[m].stopCalls <= 1
             /\ instances[m].closeCalls <= 1
             /\ subscriptions[m].cancelCalls <= 1
    /\ \A h \in Handles : observers[h].cancelCalls <= 1

\* C9: when the component is ready with an observer registered, no callback
\* is queued any more and no delivered list waits for its render, the visible
\* task list is the result of the query derived from the current search
\* term.  Stated for the runs in which no setup call failed.
C9_ListMatchesLastQuery ==
    \A m \in Mounts :
        ( /\ Mounted(m)
          /\ NoSetupFault(m)
          /\ dittoInstanceReady[m]
          /\ tasksObserver[m] # 0
          /\ updates[m].tasks = <<>>
          /\ \A h \in Handles : observers[h].pending = <<>> )
        => tasks[m] = RunQuery(BuildQuery(searchQuery[m]), store)

AllWhiteSpace(t) == \A i \in 1..Len(t) : t[i] \in WhiteSpace

\* t is s with white space (and only white space) removed at both ends.
IsTrimOf(s, t) ==
    \E i, j \in 1..Len(t) :
        /\ i <= j
        /\ t[i] \notin WhiteSpace
        /\ t[j] \notin WhiteSpace
        /\ \A k \in 1..Len(t) : (k < i \/ k > j) => t[k] \in WhiteSpace
        /\ s = SubSeq(t, i, j)

\* C10: the query of every observer the store still holds is the one its
\* search term determines: for an empty or white-space-only term the base
\* filter followed by ORDER BY done and no arguments; otherwise the base
\* filter, the ILIKE clause and ORDER BY done, with the single argument
\* "%" + trimmed term + "%"; ORDER BY is the last clause in both cases.
C10_QueryOfTerm ==
    \A h \in Handles :
        observers[h].query # NoQuery
        => LET t == observers[h].term
               q == observers[h].query
           IN  /\ q.text[Len(q.text)] = OrderClause
               /\ IF AllWhiteSpace(t)
                  THEN /\ q.text = <<BaseQuery, OrderClause>>
                       /\ q.args = NoArgs
                  ELSE /\ q.text = <<BaseQuery, IlikeClause, OrderClause>>
                       /\ DOMAIN q.args = {"searchQuery"}
                       /\ LET a == q.args["searchQuery"]
                              s == SubSeq(a, 2, Len(a) - 1)
                          IN  /\ IsTrimOf(s, t)
                              /\ a = <<"%">> \o s \o <<"%">>

\* C10 witness: an observer registered for a padded term, and one registered
\* for a white-space-only term.
C10_Witness ==
    /\ \E h \in Handles :
          /\ observers[h].term = <<"\f", "M", "I", "L", "K", "U+00A0">>
          /\ observers[h].query.args = [k \in {"searchQuery"} |-> <<"%", "M", "I", "L", "K", "%">>]
    /\ \E h \in Handles :
          /\ observers[h].term = <<" ", " ">>
          /\ observers[h].query.text = <<BaseQuery, OrderClause>>

\* C11: soft delete.  deleteTask issues the statement that sets deleted of
\* the task's record; when its execute succeeds the record is in the store
\* with deleted = true; no step of the program turns deleted back to false
\* or removes a record from the store; and, after every step that writes to
\* the store or registers an observer, the result of the query of every
\* observer the store holds contains no deleted record, while the record is
\* still in the store.
C11_SoftDelete ==
    [][/\ Len(store') >= Len(store)
       /\ \A i \in 1..Len(store) : store[i].deleted => store'[i].deleted
       /\ \A m \in Mounts : \A task \in Shown(m) :
             (ditto[m] /\ mutations' # mutations /\ DeleteTask(m, task))
             => executing' = Append(executing, UpdateDeletedStatement(task.id))
       /\ \A i \in 1..Len(executing) :
             ( /\ executing[i].kind = "setDeleted"
               /\ executing' # executing
               /\ ExecuteSettles(i, FALSE) )
             => /\ executing[i].id \in 1..Len(store')
                /\ store'[executing[i].id].deleted
       /\ (store' # store \/ Len(observers') # Len(observers))
             => \A h \in DOMAIN observers' :
                   observers'[h].query # NoQuery
                   => LET res == RunQuery(observers'[h].query, store')
                      IN  \A j \in 1..Len(res) :
                             /\ ~res[j].deleted
                             /\ ~store'[res[j].id].deleted]_vars

\* C11 witness: five mutations were issued and have settled (as createTask,
\* deleteTask, editTask and toggleTask of the task the list still showed, and
\* createTask again); the first record is in the store with deleted = true and
\* the title and done value written after it was deleted, the second record is
\* not deleted, and the live observer has delivered the list with the second
\* record alone, which was rendered.
C11_Witness ==
    /\ mutations = 5
    /\ executing = <<>>
    /\ Len(store) = 2
    /\ store[1] = [title |-> BuyEggs, done |-> TRUE, deleted |-> TRUE]
    /\ ~store[2].deleted
    /\ \E m \in Mounts :
          /\ Mounted(m)
          /\ tasksObserver[m] # 0
          /\ Live(observers, tasksObserver[m])
          /\ observers[tasksObserver[m]].pending = <<>>
          /\ Len(RunQuery(observers[tasksObserver[m]].query, store)) = 1
          /\ updates[m].tasks = <<>>
          /\ Len(tasks[m]) = 1
          /\ tasks[m][1].id = 2

\* C12: toggleTask issues one statement, which sets done of the record with
\* the task's id to the negation of the done value of the task passed in,
\* whatever the store holds; when it is applied, title and deleted of that
\* record and every other record stay as they are.  So a toggle issued with
\* a snapshot the store has already moved away from writes the value the
\* store already has.
C12_ToggleWritesNegatedArgument ==
    [][/\ \A m \in Mounts : \A task \in Shown(m) :
             (ditto[m] /\ mutations' # mutations /\ ToggleTask(m, task))
             => /\ executing' = Append(executing,
                                       UpdateDoneStatement(task.id, ~task.done))
                /\ store' = store
                /\ mutations' = mutations + 1
       /\ \A i \in 1..Len(executing) :
             ( /\ executing[i].kind = "setDone"
               /\ executing' # executing
               /\ ExecuteSettles(i, FALSE) )
             => LET id == executing[i].id
                IN  /\ Len(store') = Len(store)
                    /\ store'[id].done = executing[i].done
                    /\ store'[id].title = store[id].title
                    /\ store'[id].deleted = store[id].deleted
                    /\ \A j \in 1..Len(store) : j # id => store'[j] = store[j]
                    /\ (store[id].done = executing[i].done) => store' = store]_vars

\* C12 witness: the store holds two records and the list shows both with
\* done = false; two toggleTask calls were made with the same snapshot of the
\* first; the first has been applied (the store holds done = true for the
\* first record and the second record is as it was, the result is queued for
\* the observer) and the second, with the same value, is in flight.
C12_Witness ==
    /\ mutations = 4
    /\ Len(store) = 2
    /\ store[1].done
    /\ ~store[1].deleted
    /\ store[2] = [title |-> BuyMilk, done |-> FALSE, deleted |-> FALSE]
    /\ executing = <<UpdateDoneStatement(1, TRUE)>>
    /\ \E m \in Mounts :
          /\ Mounted(m)
          /\ ditto[m]
          /\ Len(tasks[m]) = 2
          /\ \A t \in Shown(m) : ~t.done
          /\ tasksObserver[m] # 0
          /\ Live(observers, tasksObserver[m])
          /\ Len(observers[tasksObserver[m]].pending) = 1
          /\ \E k \in 1..2 : /\ observers[tasksObserver[m]].pending[1][k].id = 1
                             /\ observers[tasksObserver[m]].pending[1][k].done

\* C13: a mutation whose execute call rejects is caught and logged by its own
\* handler and changes nothing else: not the error state, the visible list,
\* the instance, the subscription, the observers or the store, and not the
\* other execute calls in flight, so that what earlier mutations wrote stays
\* written and the others are applied as they would have been without it.
C13_FailedMutationContained ==
    [][\A i \in 1..Len(executing) :
          ExecuteSettles(i, TRUE)
          => /\ loggedFailure'
             /\ executing' = Without(executing, i)
             /\ UNCHANGED <<status, stateCells, refs, closures, initCall,
                            instances, subscriptions, observers, store,
                            teardownLog, searchChanges, mutations>>]_vars

\* C13 witness: of three mutations one was rejected and logged while another
\* is still in flight; the record an earlier one created is in the store and
\* in the visible list, and no error is shown.
C13_Witness ==
    /\ mutations = 3
    /\ loggedFailure
    /\ Len(executing) = 1
    /\ Len(store) = 1
    /\ \E m \in Mounts :
          /\ Mounted(m)
          /\ ditto[m]
          /\ error[m] = "none"
          /\ Len(tasks[m]) = 1
          /\ tasksObserver[m] # 0
          /\ Live(observers, tasksObserver[m])

\* C14: once the error box is dismissed it stays dismissed across the
\* re-renders that raise no new error: a sync toggle, a search-term change
\* whose registration succeeds, the render of what an observer callback or
\* the setup chain handed over with no setError among it.  The error state
\* itself is left as it is by these steps.
C14_DismissedStaysCleared ==
    [][\A m \in Mounts :
          ( /\ dismissed[m]
            /\ \/ ToggleSync(m)
               \/ (updates[m].error = <<>> /\ Render(m))
               \/ \E term \in SearchTerms : SetSearchQuery(m, term, FALSE) )
          => (dismissed'[m] /\ error'[m] = error[m])]_vars

\* C15: init() is invoked once for the whole run: however often the
\* component is mounted, at most one mount has called init(), and every
\* setupDittoInstance waits for that one call.
C15_InitOnce ==
    Cardinality({m \in Mounts : initCall[m] # "none"}) <= 1

\* C16: when registerObserver throws, in the effect run after the render in
\* which the instance becomes ready or in the one of a search-term change,
\* the error is handed to setError, tasksObserver.current is null afterwards
\* and no observer of the component is live; and the render that follows
\* puts the error handed over into the error state and shows it.
C16_FailedRegistrationLeavesAbsent ==
    [][\A m \in Mounts :
          /\ ( \/ \E term \in SearchTerms : SetSearchQuery(m, term, TRUE)
               \/ RunEffects(m, TRUE) )
             => /\ updates'[m].error = <<"observer">>
                /\ tasksObserver'[m] = 0
                /\ \A h \in DOMAIN observers' :
                      observers'[h].owner = m => ~Live(observers', h)
          /\ (updates[m].error # <<>> /\ Render(m))
             => /\ error'[m] = updates[m].error[1]
                /\ ~dismissed'[m]]_vars

\* C16 witness: the component is ready, its observer was cancelled by a
\* search-term change and the registration that followed threw: the error
\* was rendered and is shown, and the ref holds no handle.
C16_Witness ==
    \E m \in Mounts :
        /\ Mounted(m)
        /\ dittoInstanceReady[m]
        /\ ditto[m]
        /\ searchChanges > 0
        /\ error[m] = "observer"
        /\ ~dismissed[m]
        /\ updates[m].error = <<>>
        /\ tasksObserver[m] = 0
        /\ \E h \in Handles : observers[h].owner = m /\ ~Live(observers, h)

\* C17: a subscription or an observer is registered, and sync is started by
\* the setup chain, only on an instance that teardown has not closed, and
\* only after setTransportConfig and disableSyncWithV3 were done on it.
\* Stated for the runs in which init() succeeded and no setup call failed.
C17_RegistrationOnOpenInstance ==
    [][\A m \in Mounts :
          (initCall[m] = "ok" /\ pc'[m] # "failed")
          => /\ (~subscriptions[m].registered /\ subscriptions'[m].registered)
                  => /\ ~instances[m].closed
                     /\ instances'[m].transport
                     /\ instances'[m].v3Disabled
             /\ (\E h \in DOMAIN observers' :
                     h \notin DOMAIN observers /\ observers'[h].owner = m)
                  => /\ ~instances'[m].closed
                     /\ pc'[m] = "done"
             /\ ~instances'[m].usedAfterClose]_vars

\* C18: a mutation handler invoked while ditto.current holds no instance
\* leaves the store and the observers' queues as they are, puts no execute
\* in flight (nothing is applied, nothing is queued for later) and reports
\* an error.
C18_MutationWithoutInstanceReports ==
    [][\A m \in Mounts :
          (Mounted(m) /\ ~ditto[m] /\ mutations' = mutations + 1)
          => /\ store' = store
             /\ observers' = observers
             /\ executing' = executing
             /\ loggedFailure']_vars

\* tasksObserver.current holds a live observer registered with the query
\* derived from the current search term.
ObserverActive(m) ==
    /\ tasksObserver[m] # 0
    /\ Live(observers, tasksObserver[m])
    /\ observers[tasksObserver[m]].term = searchQuery[m]
    /\ observers[tasksObserver[m]].query = BuildQuery(searchQuery[m])

\* init(), a setup call or registerObserver of mount m has failed.
SetupFault(m) ==
    \/ initCall[m] = "failed"
    \/ pc[m] = "failed"
    \/ error[m] = "observer"
    \/ updates[m].error = <<"observer">>

\* C19: a mounted component whose init() and setup calls succeed and which
\* stays mounted eventually is ready with an active observer; and once it is
\* ready, a search-term change whose registration succeeds leaves, in the
\* same step, an active observer registered with the query of the new term.
C19_EventuallyObserving ==
    /\ \A m \in Mounts :
          Mounted(m) ~> ( \/ ~Mounted(m)
                         \/ SetupFault(m)
                         \/ (dittoInstanceReady[m] /\ ObserverActive(m)) )
    /\ [][\A m \in Mounts :
            ( /\ dittoInstanceReady[m]
              /\ ditto[m]
              /\ \E term \in SearchTerms : SetSearchQuery(m, term, FALSE) )
            => ( /\ tasksObserver'[m] # 0
                 /\ tasksObserver'[m] # tasksObserver[m]
                 /\ Live(observers', tasksObserver'[m])
                 /\ observers'[tasksObserver'[m]].term = searchQuery'[m]
                 /\ observers'[tasksObserver'[m]].query = BuildQuery(searchQuery'[m]) )]_vars

\* C19 witness: the component became ready and the search term was changed
\* twice: the observer of the current, non-empty term is active and two older
\* observers are cancelled.
C19_Witness ==
    \E m \in Mounts :
        /\ Mounted(m)
        /\ dittoInstanceReady[m]
        /\ ~SetupFault(m)
        /\ searchChanges = 2
        /\ searchQuery[m] = <<"e", "g", "g", "s">>
        /\ ObserverActive(m)
        /\ tasksObserver[m] = 3
        /\ ~Live(observers, 1)
        /\ ~Live(observers, 2)

\* C20: whenever the instance of a mounted component is ready, the syncActive
\* flag equals the sync state of the instance, whatever toggleSync calls were
\* made before the instance existed, while setup was waiting, or afterwards.
C20_SyncFlagMatchesInstance ==
    \A m \in Mounts :
        (Mounted(m) /\ dittoInstanceReady[m])
        => instances[m].syncing = syncActive[m]

\* C20 witness: the instance is ready and a toggleSync has stopped it: the
\* flag is false and the instance is not syncing.
C20_Witness ==
    \E m \in Mounts :
        /\ Mounted(m)
        /\ dittoInstanceReady[m]
        /\ ditto[m]
        /\ instances[m].v3Disabled
        /\ ~syncActive[m]
        /\ ~instances[m].syncing

====
